---- MODULE Spec2Model ----
(***************************************************************************)
(* The view-model transaction engine of packages/outline/src/OutlineView.js *)
(* as a state machine.  The JavaScript call stack is the variable stack:    *)
(* one frame per running draftViewModel, readViewModel or updateViewModel   *)
(* call.  User code (mutation callbacks, read callbacks, text transforms,   *)
(* change listeners, code at top level) is the environment: whenever the    *)
(* top frame is waiting for user code, any of the ambient operations, a     *)
(* nested call, a return or a throw may happen.                             *)
(*                                                                          *)
(* JavaScript arrays are 0-based, sequences here are 1-based: the loop      *)
(* indices s and i of the source are kept one higher.                       *)
(***************************************************************************)
EXTENDS Integers, Sequences, FiniteSets, TLC

\* ---------------------------------------------------------------- bounds
MaxKeys == 3          \* node keys 1..MaxKeys
MaxVMs == 2           \* view models ever allocated (the initial one and forks)
MaxDepth == 3         \* frames on the call stack
MaxSteps == 4         \* calls of the three entry points plus mutating ambient operations
MaxTransforms == 2    \* text transforms that may be registered
MaxListeners == 2     \* update listeners that may be registered

Null == 0
RootKey == "root"

Keys == 1..MaxKeys
InitKeys == {1, 2}
Transforms == 1..MaxTransforms
Listeners == 1..MaxListeners

VARIABLES
    activeViewModel,      \* let activeViewModel: Null or a view model id
    activeReadyOnlyMode,  \* let activeReadyOnlyMode
    heap,                 \* the ViewModel objects, by id
    editor,               \* _viewModel, _textTransforms, _updateListeners
    stack,                \* the call stack of this module's functions
    throwing,             \* an exception is propagating
    event,                \* what the last step did
    budget,               \* calls and mutating operations made so far
    tx,                   \* passes run on behalf of the outermost draft
    escaped               \* an exception has left a call of this module

vars == <<activeViewModel, activeReadyOnlyMode, heap, editor, stack, throwing,
          event, budget, tx, escaped>>

\* ------------------------------------------------------------ sequences
Range(q) == {q[n] : n \in DOMAIN q}

\* Set.prototype.add on an insertion-ordered Set
SetAdd(q, x) == IF x \in Range(q) THEN q ELSE Append(q, x)

Last(q) == q[Len(q)]
Pop(q) == SubSeq(q, 1, Len(q) - 1)

\* ---------------------------------------------------------- collaborators
\* node instanceof TextNode: the class of a node never changes
IsTextKey(k) == k % 2 = 1

NewNode(k, att) == [isText |-> IsTextKey(k), attached |-> att]

NoSelection == [present |-> FALSE, isDirty |-> FALSE]
Selections == {NoSelection,
               [present |-> TRUE, isDirty |-> FALSE],
               [present |-> TRUE, isDirty |-> TRUE]}

\* createSelection(viewModel, editor): null or a fresh Selection
CreateSelectionResults == Selections

\* ------------------------------------------------------------- ViewModel
NewViewModel(root) ==
    [root |-> root,
     nodeMap |-> [k \in {} |-> NewNode(k, FALSE)],
     selection |-> NoSelection,
     dirtyNodes |-> <<>>,
     dirtySubTrees |-> {},
     isHistoric |-> FALSE]

cloneViewModel(current) ==
    [NewViewModel(current.root) EXCEPT
        !.nodeMap = [k \in DOMAIN current.nodeMap |-> current.nodeMap[k]]]

hasDirtyNodes(vm) == Len(vm.dirtyNodes) > 0

\* the loop of getDirtyNodes leaving out detached nodes as well as missing ones
RECURSIVE getAttachedDirtyNodesFrom(_, _, _)
getAttachedDirtyNodesFrom(dirtyNodes, nodeMap, i) ==
    IF i > Len(dirtyNodes) THEN <<>>
    ELSE (IF dirtyNodes[i] \in DOMAIN nodeMap /\ nodeMap[dirtyNodes[i]].attached
             THEN <<nodeMap[dirtyNodes[i]]>> ELSE <<>>)
         \o getAttachedDirtyNodesFrom(dirtyNodes, nodeMap, i + 1)

RECURSIVE getDirtyNodesFrom(_, _, _)
getDirtyNodesFrom(dirtyNodes, nodeMap, i) ==
    IF i > Len(dirtyNodes) THEN <<>>
    ELSE (IF dirtyNodes[i] \in DOMAIN nodeMap
             THEN <<nodeMap[dirtyNodes[i]]>> ELSE <<>>)
         \o getDirtyNodesFrom(dirtyNodes, nodeMap, i + 1)

getDirtyNodes(vm) == getDirtyNodesFrom(vm.dirtyNodes, vm.nodeMap, 1)

\* -------------------------------------------------------------- the guard
shouldErrorOnReadOnly(readOnly) == readOnly

getActiveViewModelThrows(active) == active = Null

\* ------------------------------------------------------------ acceptance
viewModelHasDirtySelection(selection, currentSelection) ==
    IF (currentSelection.present /\ ~selection.present)
       \/ (~currentSelection.present /\ selection.present)
    THEN TRUE
    ELSE selection.present /\ selection.isDirty

canUseExistingModel(vm, currentSelection) ==
    ~hasDirtyNodes(vm) /\ ~viewModelHasDirtySelection(vm.selection, currentSelection)

\* the acceptance decision without its selection test
draftResultIgnoringSelection(vm, vmId, currentId, currentSelection) ==
    IF ~hasDirtyNodes(vm) THEN currentId ELSE vmId

draftResult(vm, vmId, currentId, currentSelection) ==
    IF canUseExistingModel(vm, currentSelection) THEN currentId ELSE vmId

\* -------------------------------------------------------------- collector
RECURSIVE gcLoop(_, _, _)
gcLoop(nodeMap, dirtyNodes, s) ==
    IF s > Len(dirtyNodes) THEN nodeMap
    ELSE LET nodeKey == dirtyNodes[s] IN
         IF nodeKey \in DOMAIN nodeMap /\ ~nodeMap[nodeKey].attached
         THEN gcLoop([k \in DOMAIN nodeMap \ {nodeKey} |-> nodeMap[k]],
                     dirtyNodes, s + 1)
         ELSE gcLoop(nodeMap, dirtyNodes, s + 1)

\* the collector without its isAttached test: every dirty entry is deleted
garbageCollectDirtyNodes(vm) ==
    [vm EXCEPT !.nodeMap =
        [k \in DOMAIN vm.nodeMap \ Range(vm.dirtyNodes) |-> vm.nodeMap[k]]]

garbageCollectDetachedNodes(vm) ==
    [vm EXCEPT !.nodeMap = gcLoop(vm.nodeMap, vm.dirtyNodes, 1)]

\* ------------------------------------------------------ transform pipeline
\* the test without its isAttached() half
transformableDetachedToo(nodeMap, nodeKey) ==
    /\ nodeKey \in DOMAIN nodeMap
    /\ nodeMap[nodeKey].isText

\* the test of applyTextTransforms' outer loop body on dirtyNodes[s]
transformable(nodeMap, nodeKey) ==
    /\ nodeKey \in DOMAIN nodeMap
    /\ nodeMap[nodeKey].attached
    /\ nodeMap[nodeKey].isText

\* the next index >= s whose node passes the test, Len + 1 when none does
RECURSIVE nextTransformable(_, _, _)
nextTransformable(nodeMap, dirtyNodes, s) ==
    IF s > Len(dirtyNodes) THEN s
    ELSE IF transformable(nodeMap, dirtyNodes[s]) THEN s
    ELSE nextTransformable(nodeMap, dirtyNodes, s + 1)

\* ----------------------------------------------------------------- frames
UserPc == {"callbackFn", "transform", "listener"}

Frame(op, pc, vmId, curId) ==
    [op |-> op, pc |-> pc,
     viewModel |-> vmId,
     currentViewModel |-> curId,
     previousActiveViewModel |-> activeViewModel,
     previousReadyOnlyMode |-> activeReadyOnlyMode,
     hasActiveViewModel |-> activeViewModel # Null,
     dirtyNodes |-> <<>>, textTransforms |-> <<>>, listeners |-> <<>>,
     s |-> 0, i |-> 0,
     \* the arguments of the transform call under way: node key and function
     node |-> Null, fn |-> Null,
     \* bookkeeping for the properties
     entry |-> heap[IF curId = Null THEN vmId ELSE curId],
     heapLen |-> Len(heap),
     dirtyAfterCallback |-> FALSE,
     applied |-> 0, collected |-> 0,
     gcDirtyNodes |-> <<>>,
     gcNodeMap |-> [k \in {} |-> NewNode(k, FALSE)],
     selectionSetInRead |-> FALSE,
     selectionBy |-> "none",
     editorViewModel |-> editor._viewModel,
     registered |-> <<>>,
     invoked |-> [l \in Listeners |-> 0],
     called |-> [f \in Transforms |-> [k \in Keys |-> 0]],
     detachedAtStart |-> {},
     forgotten |-> FALSE,
     committedInside |-> FALSE]

Top == Last(stack)

\* the counts kept for the properties go up to 2 (twice or more)
Count(n) == IF n < 2 THEN n + 1 ELSE n

\* no transaction is under way
NoTx == [viewModel |-> Null, applied |-> 0, collected |-> 0,
         invoked |-> [f \in Transforms |-> [k \in Keys |-> 0]]]

\* a step that the properties need no record of
NoEvent == [type |-> "none"]

\* user code is running and may act
InUserCode == ~throwing /\ (IF stack = <<>> THEN TRUE ELSE Top.pc \in UserPc)

Depth == Len(stack)

VmIds == 1..Len(heap)

SpendCall == budget < MaxSteps /\ Depth < MaxDepth
SpendOp == budget < MaxSteps

\* ------------------------------------------------------------------- Init
InitialViewModel ==
    [NewViewModel(RootKey) EXCEPT
        !.nodeMap = [k \in InitKeys |-> NewNode(k, TRUE)]]

Init ==
    /\ activeViewModel = Null
    /\ activeReadyOnlyMode = FALSE
    /\ heap = <<InitialViewModel>>
    /\ editor = [_viewModel |-> 1, _textTransforms |-> <<>>, _updateListeners |-> <<>>]
    /\ stack = <<>>
    /\ throwing = FALSE
    /\ event = NoEvent
    /\ budget = 0
    /\ tx = NoTx
    /\ escaped = FALSE


\* ------------------------------------------- callCallbackWithViewModelScope
\* the guard clearing the slots on exit instead of restoring what it saved
scopeReset(frame) ==
    [activeViewModel |-> Null, activeReadyOnlyMode |-> FALSE]

\* lines 117-118: what the guard assigns after callbackFn(view) has returned
scopeRestore(frame) ==
    [activeViewModel |-> frame.previousActiveViewModel,
     activeReadyOnlyMode |-> frame.previousReadyOnlyMode]

\* an exception leaving callbackFn(view) skips lines 117-118: nothing is assigned
scopeUnwind(frame) ==
    [activeViewModel |-> activeViewModel,
     activeReadyOnlyMode |-> activeReadyOnlyMode]

HasDraftFrame == \E n \in DOMAIN stack : stack[n].op = "draft"

\* the top frame is a draftViewModel call with no other one below it
TopIsOutermostDraft ==
    /\ Top.op = "draft"
    /\ ~(\E n \in 1..(Depth - 1) : stack[n].op = "draft")

\* the pass counts of a transaction end with its outermost call
TxAfterPop == IF TopIsOutermostDraft THEN NoTx ELSE tx

\* --------------------------------------------------------- draftViewModel
\* lines 58-63 and 112-116: fork or reuse, attach a selection, enter the scope
draftFork(hasActive, cur) ==
    IF hasActive THEN heap ELSE Append(heap, cloneViewModel(heap[cur]))

draftTarget(hasActive) ==
    IF hasActive THEN activeViewModel ELSE Len(heap) + 1

DraftViewModelCall(cur, sel) ==
    /\ InUserCode /\ SpendCall
    /\ activeViewModel # Null \/ Len(heap) < MaxVMs
    /\ LET hasActive == activeViewModel # Null
           vmId == draftTarget(hasActive)
       IN /\ heap' = [draftFork(hasActive, cur) EXCEPT ![vmId].selection = sel]
          /\ stack' = Append(stack, Frame("draft", "callbackFn", vmId, cur))
          /\ activeViewModel' = vmId
          /\ activeReadyOnlyMode' = FALSE
          /\ tx' = IF HasDraftFrame THEN tx
                   ELSE [NoTx EXCEPT !.viewModel = vmId]
          /\ event' = [type |-> "call", op |-> "draft", forked |-> ~hasActive,
                       viewModel |-> vmId, currentViewModel |-> cur,
                       selection |-> sel]
    /\ budget' = budget + 1
    /\ UNCHANGED <<editor, throwing, escaped>>

\* the loop run over the live dirtyNodes and the live registry instead of the
\* arrays taken at lines 130-131
pipelineAdvanceLive(frame, nodeMap, from) ==
    LET live == heap[frame.viewModel].dirtyNodes
        fns == editor._textTransforms
        s == nextTransformable(nodeMap, live, from)
    IN IF Len(fns) > 0 /\ s <= Len(live)
       THEN [frame EXCEPT !.pc = "transform", !.s = s, !.i = 1,
                          !.node = live[s],
                          !.fn = fns[1],
                          !.called[fns[1]][live[s]] = IF @ < 2 THEN @ + 1 ELSE @]
       ELSE [frame EXCEPT !.pc = "collect"]

\* lines 127-137 on entry, and the loop's advance after a transform returned:
\* the frame moved to the next transform call, or past the loop
pipelineAdvance(frame, nodeMap, from) ==
    LET s == nextTransformable(nodeMap, frame.dirtyNodes, from) IN
    IF Len(frame.textTransforms) > 0 /\ s <= Len(frame.dirtyNodes)
    THEN [frame EXCEPT !.pc = "transform", !.s = s, !.i = 1,
                       !.node = frame.dirtyNodes[s],
                       !.fn = frame.textTransforms[1],
                       !.called[frame.textTransforms[1]][frame.dirtyNodes[s]] =
                           IF @ < 2 THEN @ + 1 ELSE @]
    ELSE [frame EXCEPT !.pc = "collect"]

\* the passes run without the test of line 66
runsPassesAlways(vm) == TRUE

\* line 66: are the passes run
runsPasses(vm) == hasDirtyNodes(vm)

\* lines 140-141 inside the loop: the next function on the same node, or the
\* loop's advance to the next node
transformAdvance(frame, nodeMap) ==
    IF frame.i < Len(frame.textTransforms)
    THEN [frame EXCEPT !.i = @ + 1, !.fn = frame.textTransforms[frame.i + 1],
                       !.called[frame.textTransforms[frame.i + 1]][frame.node] =
                           IF @ < 2 THEN @ + 1 ELSE @]
    ELSE pipelineAdvance(frame, nodeMap, frame.s + 1)

\* the transaction's count of the transform call that frame has just begun
txInvoked(frame, t) ==
    IF frame.pc = "transform" /\ frame.viewModel = t.viewModel
    THEN [t EXCEPT !.invoked[frame.fn][frame.node] = Count(@)]
    ELSE t

\* what a step of the pipeline did: called a transform, or nothing to record
pipelineEvent(frame) ==
    IF frame.pc = "transform"
    THEN [type |-> "invoke", frame |-> frame,
          transformable |-> transformable(heap[frame.viewModel].nodeMap, frame.node)]
    ELSE NoEvent

\* lines 65-67: callbackFn(v) returned
DraftCallbackReturn ==
    /\ ~throwing /\ stack # <<>>
    /\ Top.op = "draft" /\ Top.pc = "callbackFn"
    /\ LET vm == heap[Top.viewModel]
           started == [Top EXCEPT !.dirtyAfterCallback = hasDirtyNodes(vm),
                                  !.applied = @ + 1,
                                  !.dirtyNodes = vm.dirtyNodes,
                                  !.textTransforms = editor._textTransforms,
                                  !.detachedAtStart =
                                      {k \in Range(vm.dirtyNodes) \cap DOMAIN vm.nodeMap :
                                          ~vm.nodeMap[k].attached}]
           frame == pipelineAdvance(started, vm.nodeMap, 1)
       IN IF runsPasses(vm)
          THEN /\ stack' = [stack EXCEPT ![Depth] = frame]
               /\ tx' = txInvoked(frame, IF Top.viewModel = tx.viewModel
                                         THEN [tx EXCEPT !.applied = Count(@)] ELSE tx)
               /\ event' = pipelineEvent(frame)
          ELSE /\ stack' = [stack EXCEPT ![Depth] =
                                [Top EXCEPT !.pc = "exit",
                                            !.dirtyAfterCallback = hasDirtyNodes(vm)]]
               /\ tx' = tx
               /\ event' = NoEvent
    /\ UNCHANGED <<activeViewModel, activeReadyOnlyMode, heap, editor, throwing, budget, escaped>>

\* lines 140-142: textTransforms[i](node, view) returned
TransformReturn ==
    /\ ~throwing /\ stack # <<>>
    /\ Top.op = "draft" /\ Top.pc = "transform"
    /\ LET frame == transformAdvance(Top, heap[Top.viewModel].nodeMap)
       IN /\ stack' = [stack EXCEPT ![Depth] = frame]
          /\ tx' = txInvoked(frame, tx)
          /\ event' = pipelineEvent(frame)
    /\ UNCHANGED <<activeViewModel, activeReadyOnlyMode, heap, editor, throwing,
                   budget, escaped>>

\* line 68: garbageCollectDetachedNodes(viewModel)
Collect ==
    /\ ~throwing /\ stack # <<>>
    /\ Top.op = "draft" /\ Top.pc = "collect"
    /\ heap' = [heap EXCEPT ![Top.viewModel] = garbageCollectDetachedNodes(@)]
    /\ stack' = [stack EXCEPT ![Depth] =
                    [Top EXCEPT !.pc = "exit",
                                !.collected = @ + 1,
                                !.gcDirtyNodes = heap[Top.viewModel].dirtyNodes,
                                !.gcNodeMap = heap[Top.viewModel].nodeMap]]
    /\ tx' = IF Top.viewModel = tx.viewModel
             THEN [tx EXCEPT !.collected = Count(@)] ELSE tx
    /\ event' = NoEvent
    /\ UNCHANGED <<activeViewModel, activeReadyOnlyMode, editor, throwing, budget, escaped>>

\* lines 117-118 and 76-79: leave the scope, decide acceptance, return
DraftViewModelReturn ==
    /\ ~throwing /\ stack # <<>>
    /\ Top.op = "draft" /\ Top.pc = "exit" /\ ~Top.forgotten
    /\ activeViewModel' = scopeRestore(Top).activeViewModel
    /\ activeReadyOnlyMode' = scopeRestore(Top).activeReadyOnlyMode
    /\ stack' = Pop(stack)
    /\ event' = [type |-> "return", op |-> "draft", frame |-> Top,
                 outermost |-> TopIsOutermostDraft, tx |-> tx,
                 currentSelection |-> heap[editor._viewModel].selection,
                 result |-> draftResult(heap[Top.viewModel], Top.viewModel,
                                        Top.currentViewModel,
                                        heap[editor._viewModel].selection)]
    /\ tx' = TxAfterPop
    /\ UNCHANGED <<heap, editor, throwing, budget, escaped>>

\* ---------------------------------------------------------- readViewModel
\* lines 103 and 112-116
ReadViewModelCall(vmId) ==
    /\ InUserCode /\ SpendCall
    /\ stack' = Append(stack, Frame("read", "callbackFn", vmId, Null))
    /\ activeViewModel' = vmId
    /\ activeReadyOnlyMode' = TRUE
    /\ event' = NoEvent
    /\ budget' = budget + 1
    /\ UNCHANGED <<heap, editor, throwing, tx, escaped>>

\* lines 116-118
ReadViewModelReturn ==
    /\ ~throwing /\ stack # <<>>
    /\ Top.op = "read" /\ Top.pc = "callbackFn"
    /\ activeViewModel' = scopeRestore(Top).activeViewModel
    /\ activeReadyOnlyMode' = scopeRestore(Top).activeReadyOnlyMode
    /\ stack' = Pop(stack)
    /\ event' = [type |-> "return", op |-> "read", frame |-> Top]
    /\ UNCHANGED <<heap, editor, throwing, budget, tx, escaped>>


\* -------------------------------------------------------- updateViewModel
\* lines 168-170: install the snapshot and call the reconciler
UpdateViewModelCall(vmId) ==
    /\ InUserCode /\ SpendCall
    /\ stack' = Append(stack, Frame("update", "reconcile", vmId, Null))
    /\ activeViewModel' = vmId
    /\ event' = NoEvent
    /\ budget' = budget + 1
    /\ UNCHANGED <<activeReadyOnlyMode, heap, editor, throwing, tx, escaped>>

\* an exception leaving reconcileViewModel (line 170) skips lines 171-173, and
\* one leaving a listener (line 182) comes after them: nothing is assigned
\* (updateViewModel has no assignment to activeReadyOnlyMode at all)
updateUnwind(frame) ==
    [activeViewModel |-> activeViewModel,
     activeReadyOnlyMode |-> activeReadyOnlyMode]

\* line 180: the listeners this notification calls
listenersToCall(ed) == ed._updateListeners

\* the loop over the live registry instead of the array taken at line 180
notifyAdvanceLive(frame, i) ==
    IF i <= Len(editor._updateListeners)
    THEN [frame EXCEPT !.pc = "listener", !.i = i,
                       !.invoked[editor._updateListeners[i]] = @ + 1]
    ELSE [frame EXCEPT !.pc = "done"]

\* lines 181-183: the listener call at index i, or the end of the loop
notifyAdvance(frame, i) ==
    IF i <= Len(frame.listeners)
    THEN [frame EXCEPT !.pc = "listener", !.i = i,
                       !.invoked[frame.listeners[i]] = @ + 1]
    ELSE [frame EXCEPT !.pc = "done"]

\* the frame after a step of triggerOnChange, popped once the loop is over
AfterNotify(frame) ==
    IF frame.pc = "done" THEN Pop(stack) ELSE [stack EXCEPT ![Depth] = frame]

\* line 172 as seen by the calls under way: the frames below the top one
\* remember that the editor's current snapshot was replaced while they ran
commitSeenBy(stk, vmId) ==
    [n \in DOMAIN stk |->
        IF n < Depth /\ editor._viewModel # vmId
        THEN [stk[n] EXCEPT !.committedInside = TRUE]
        ELSE stk[n]]

\* lines 170-173 and 180-182: reconcileViewModel returned
ReconcileReturn ==
    /\ ~throwing /\ stack # <<>>
    /\ Top.op = "update" /\ Top.pc = "reconcile"
    /\ activeViewModel' = Top.previousActiveViewModel
    /\ editor' = [editor EXCEPT !._viewModel = Top.viewModel]
    /\ LET frame == notifyAdvance([Top EXCEPT !.listeners = listenersToCall(editor),
                                               !.registered = editor._updateListeners], 1)
       IN /\ stack' = commitSeenBy(AfterNotify(frame), Top.viewModel)
          /\ event' = [type |-> IF frame.pc = "done" THEN "return" ELSE "notify",
                       op |-> "update", frame |-> frame, began |-> TRUE]
    /\ UNCHANGED <<activeReadyOnlyMode, heap, throwing, budget, tx, escaped>>

\* lines 181-183: listeners[i](viewModel) returned
ListenerReturn ==
    /\ ~throwing /\ stack # <<>>
    /\ Top.op = "update" /\ Top.pc = "listener"
    /\ LET frame == notifyAdvance(Top, Top.i + 1)
       IN /\ stack' = AfterNotify(frame)
          /\ event' = [type |-> IF frame.pc = "done" THEN "return" ELSE "notify",
                       op |-> "update", frame |-> frame, began |-> FALSE]
    /\ UNCHANGED <<activeViewModel, activeReadyOnlyMode, heap, editor, throwing,
                   budget, tx, escaped>>

\* ------------------------------------------------------------- the editor
\* Registration is done by top-level code, or by a transform (a listener)
\* while the pipeline (the notification) that runs it is under way: the code
\* here reads the registries at lines 127-131 and 180 only, so a registration
\* made by any other callback acts like one made before the call.  Top-level
\* code registers the first function of a registry; a further one is
\* registered by a function while it runs, so every registry content is
\* reached, the ones that change during a run included.
\* editor.addTextTransform: Set.add on editor._textTransforms
AddTextTransform ==
    /\ InUserCode
    /\ IF stack = <<>> THEN editor._textTransforms = <<>> ELSE Top.pc = "transform"
    /\ Len(editor._textTransforms) < MaxTransforms
    /\ editor' = [editor EXCEPT !._textTransforms =
                     SetAdd(@, Len(@) + 1)]
    /\ event' = NoEvent
    /\ UNCHANGED <<activeViewModel, activeReadyOnlyMode, heap, stack, throwing,
                   budget, tx, escaped>>

\* editor.addUpdateListener: Set.add on editor._updateListeners
AddUpdateListener ==
    /\ InUserCode
    /\ IF stack = <<>> THEN editor._updateListeners = <<>> ELSE Top.pc = "listener"
    /\ Len(editor._updateListeners) < MaxListeners
    /\ editor' = [editor EXCEPT !._updateListeners =
                     SetAdd(@, Len(@) + 1)]
    /\ event' = NoEvent
    /\ UNCHANGED <<activeViewModel, activeReadyOnlyMode, heap, stack, throwing,
                   budget, tx, escaped>>

\* ------------------------------------------------------ ambient operations
\* an error thrown by user code or by a helper: it propagates unless this is
\* top-level code, where the host reports it
Raise == throwing' = (stack # <<>>)

markDirty(vm, k) ==
    [vm EXCEPT !.dirtyNodes = SetAdd(@, k),
               !.dirtySubTrees = @ \cup {RootKey}]

\* node.getWritable(): the node is cloned into the active view model and
\* marked dirty
getWritable(vm, k) == markDirty(vm, k)

\* node.remove(): the node leaves the tree and is marked dirty
removeNode(vm, k) ==
    markDirty([vm EXCEPT !.nodeMap[k].attached = FALSE], k)

\* a node is created under key k and appended to the tree (keys are generated:
\* the key of a node this view model has collected is not given out again)
insertNode(vm, k) ==
    markDirty([vm EXCEPT !.nodeMap =
                  [j \in DOMAIN vm.nodeMap \cup {k} |->
                      IF j = k THEN NewNode(k, TRUE) ELSE vm.nodeMap[j]]], k)

HelperKinds == {"getWritable", "remove", "insert"}

helperApplies(kind, vm, k) ==
    CASE kind = "getWritable" -> k \in DOMAIN vm.nodeMap
      [] kind = "remove" -> k \in DOMAIN vm.nodeMap /\ vm.nodeMap[k].attached
      [] kind = "insert" -> k \notin DOMAIN vm.nodeMap /\ k \notin Range(vm.dirtyNodes)

helperEffect(kind, vm, k) ==
    CASE kind = "getWritable" -> getWritable(vm, k)
      [] kind = "remove" -> removeNode(vm, k)
      [] kind = "insert" -> insertNode(vm, k)

\* a mutation helper of the node classes: shouldErrorOnReadOnly(), then
\* getActiveViewModel(), then the mutation
Helper(kind, k) ==
    /\ InUserCode /\ SpendOp
    /\ ~shouldErrorOnReadOnly(activeReadyOnlyMode)
    /\ ~getActiveViewModelThrows(activeViewModel)
    /\ helperApplies(kind, heap[activeViewModel], k)
    /\ heap' = [heap EXCEPT ![activeViewModel] = helperEffect(kind, @, k)]
    /\ event' = NoEvent
    /\ budget' = budget + 1
    /\ UNCHANGED <<activeViewModel, activeReadyOnlyMode, editor, stack, throwing, tx, escaped>>

\* the same helper where one of its two checks throws
HelperThrows ==
    /\ InUserCode
    /\ shouldErrorOnReadOnly(activeReadyOnlyMode)
       \/ getActiveViewModelThrows(activeViewModel)
    /\ Raise
    /\ event' = [type |-> "helperThrows",
                 error |-> IF shouldErrorOnReadOnly(activeReadyOnlyMode)
                           THEN "readOnly" ELSE "noActiveViewModel",
                 top |-> IF stack = <<>> THEN "none" ELSE Top.op]
    /\ UNCHANGED <<activeViewModel, activeReadyOnlyMode, heap, editor, stack,
                   budget, tx, escaped>>

\* what the frames remember of a view.setSelection call: one made directly by
\* a read callback; and whether the last one was made by the frame's own
\* draftViewModel callback with a dirty selection, or otherwise
selectionSeenBy(stk, sel) ==
    [n \in DOMAIN stk |->
        [stk[n] EXCEPT
            !.selectionSetInRead = @ \/ stk[Len(stk)].op = "read",
            !.selectionBy =
                IF n = Len(stk) /\ stk[n].op = "draft" /\ stk[n].pc = "callbackFn"
                   /\ sel.present /\ sel.isDirty
                THEN "dirty" ELSE "other"]]

\* lines 47-50: view.setSelection(selection); it has no read-only check.
SetSelection(sel) ==
    /\ InUserCode /\ SpendOp
    /\ ~getActiveViewModelThrows(activeViewModel)
    /\ heap' = [heap EXCEPT ![activeViewModel].selection = sel]
    /\ stack' = selectionSeenBy(stack, sel)
    /\ event' = NoEvent
    /\ budget' = budget + 1
    /\ UNCHANGED <<activeViewModel, activeReadyOnlyMode, editor, throwing, tx, escaped>>

\* lines 30-39: getActiveViewModel() called by user code (the calls made by
\* top-level code are the ones recorded)
GetActiveViewModel ==
    /\ InUserCode
    /\ throwing' = (getActiveViewModelThrows(activeViewModel) /\ stack # <<>>)
    /\ event' = IF Depth = 0
                THEN [type |-> "getActiveViewModel", depth |-> Depth,
                      threw |-> getActiveViewModelThrows(activeViewModel),
                      result |-> activeViewModel]
                ELSE NoEvent
    /\ UNCHANGED <<activeViewModel, activeReadyOnlyMode, heap, editor, stack,
                   budget, tx, escaped>>

\* ------------------------------------------------------------- exceptions
\* user code (or the reconciler) throws
Throw ==
    /\ ~throwing /\ stack # <<>>
    /\ Top.pc \in UserPc \cup {"reconcile"}
    /\ throwing' = TRUE
    /\ event' = NoEvent
    /\ UNCHANGED <<activeViewModel, activeReadyOnlyMode, heap, editor, stack,
                   budget, tx, escaped>>

\* the exception leaves the top frame: none of this module's functions has a
\* try, catch or finally, so the frame is dropped and nothing else happens.
\* Leaving the last frame hands the exception to the host.
Unwind ==
    /\ throwing /\ stack # <<>>
    /\ LET left == IF Top.op = "update" THEN updateUnwind(Top)
                                          ELSE scopeUnwind(Top)
       IN /\ activeViewModel' = left.activeViewModel
          /\ activeReadyOnlyMode' = left.activeReadyOnlyMode
    /\ stack' = Pop(stack)
    /\ throwing' = (Depth > 1)
    /\ event' = [type |-> "unwind", op |-> Top.op, frame |-> Top]
    /\ tx' = TxAfterPop
    /\ escaped' = TRUE
    /\ UNCHANGED <<heap, editor, budget>>

\* the user code that made the failed call catches the exception
Catch ==
    /\ throwing /\ stack # <<>>
    /\ Top.pc \in UserPc
    /\ throwing' = FALSE
    /\ event' = NoEvent
    /\ UNCHANGED <<activeViewModel, activeReadyOnlyMode, heap, editor, stack,
                   budget, tx, escaped>>

\* ------------------------------------------------------------------- Next
Next ==
    \/ \E cur \in VmIds, sel \in CreateSelectionResults : DraftViewModelCall(cur, sel)
    \/ DraftCallbackReturn
    \/ TransformReturn
    \/ Collect
    \/ DraftViewModelReturn
    \/ \E vmId \in VmIds : ReadViewModelCall(vmId)
    \/ ReadViewModelReturn
    \/ \E vmId \in VmIds : UpdateViewModelCall(vmId)
    \/ ReconcileReturn
    \/ ListenerReturn
    \/ AddTextTransform
    \/ AddUpdateListener
    \/ \E kind \in HelperKinds, k \in Keys : Helper(kind, k)
    \/ HelperThrows
    \/ \E sel \in Selections : SetSelection(sel)
    \/ GetActiveViewModel
    \/ Throw
    \/ Unwind
    \/ Catch

Spec == Init /\ [][Next]_vars

\* ------------------------------------------------- calls beyond MaxDepth
\* lines 58-63 and 112-116 once more, made by a transform when MaxDepth frames
\* are on the call stack: the frame of the caller is forgotten and the frame
\* of the new call takes its place (what the new call does depends on its own
\* frame and the shared state only; it cannot return to a forgotten caller)
DraftViewModelCallDeep(cur, sel) ==
    /\ ~throwing /\ Depth = MaxDepth
    /\ Top.op = "draft" /\ Top.pc = "transform"
    /\ activeViewModel # Null
    /\ heap' = [heap EXCEPT ![activeViewModel].selection = sel]
    /\ stack' = [stack EXCEPT ![Depth] =
                    [Frame("draft", "callbackFn", activeViewModel, cur)
                        EXCEPT !.forgotten = TRUE]]
    /\ activeReadyOnlyMode' = FALSE
    /\ event' = [type |-> "call", op |-> "draft", forked |-> FALSE,
                 viewModel |-> activeViewModel, currentViewModel |-> cur,
                 selection |-> sel]
    /\ UNCHANGED <<activeViewModel, editor, throwing, budget, tx, escaped>>

\* the draftViewModel calls alone, with user code that mutates, registers
\* transforms, calls draftViewModel again, returns or throws
DraftNext ==
    \/ \E cur \in VmIds, sel \in CreateSelectionResults : DraftViewModelCall(cur, sel)
    \/ \E cur \in VmIds, sel \in CreateSelectionResults : DraftViewModelCallDeep(cur, sel)
    \/ DraftCallbackReturn
    \/ TransformReturn
    \/ Collect
    \/ DraftViewModelReturn
    \/ AddTextTransform
    \/ \E kind \in HelperKinds, k \in Keys : Helper(kind, k)
    \/ Throw
    \/ Unwind

\* Control is with exactly one piece of code at a time.  Code of this module
\* that can take its next step takes it, and user code that has nothing left
\* to do but return does return: a callback or transform takes finitely many
\* steps of its own.
DraftFairness ==
    /\ WF_vars(DraftCallbackReturn)
    /\ WF_vars(TransformReturn)
    /\ WF_vars(Collect)
    /\ WF_vars(DraftViewModelReturn)
    /\ WF_vars(Unwind)

DraftSpec == Init /\ [][DraftNext]_vars /\ DraftFairness


\* ============================================================== properties
DraftReturned == event.type = "return" /\ event.op = "draft"

\* C1: whenever a draftViewModel or readViewModel call is left, by a return or
\* by an exception, activeViewModel and activeReadyOnlyMode are what they were
\* immediately before the call.
C1_ScopeRestoredOnEveryExit ==
    (event.type \in {"return", "unwind"} /\ event.op \in {"draft", "read"}) =>
        /\ activeViewModel = event.frame.previousActiveViewModel
        /\ activeReadyOnlyMode = event.frame.previousReadyOnlyMode

\* C2: a draftViewModel call made with no scope active returns its fork iff the
\* fork has a dirty node or a dirty selection when acceptance is decided, and
\* otherwise returns the currentViewModel it was given.
C2_AcceptedIffDirty ==
    (DraftReturned /\ ~event.frame.hasActiveViewModel) =>
        LET fork == heap[event.frame.viewModel]
            current == heap[editor._viewModel].selection
            dirtySelection ==
                \/ fork.selection.present # current.present
                \/ fork.selection.present /\ fork.selection.isDirty
            accepted == fork.dirtyNodes # <<>> \/ dirtySelection
        IN /\ event.frame.viewModel # event.frame.currentViewModel
           /\ accepted <=> event.result = event.frame.viewModel
           /\ ~accepted <=> event.result = event.frame.currentViewModel

\* a no-op transaction was rejected: the argument itself came back
C2_Witness ==
    /\ DraftReturned /\ ~event.frame.hasActiveViewModel
    /\ event.result = event.frame.currentViewModel
    /\ heap[event.frame.viewModel].selection.present

\* C3: over a whole transaction, the nested draftViewModel calls on its
\* snapshot included, the pipeline and the collector have each run exactly
\* once when the outermost call, whose snapshot was dirty after its mutation
\* callback, decides acceptance.
C3_PassesOncePerTransaction ==
    (DraftReturned /\ event.outermost /\ event.frame.dirtyAfterCallback) =>
        event.tx.applied = 1 /\ event.tx.collected = 1

\* What does hold of the passes (not C3, which counts over the transaction):
\* each draftViewModel call whose snapshot is dirty when its own callback
\* returns runs the pipeline once and then the collector once, both before its
\* own acceptance decision.
PassesOncePerCall ==
    /\ \A n \in DOMAIN stack :
          stack[n].op = "draft" =>
             /\ stack[n].pc = "callbackFn" =>
                   stack[n].applied = 0 /\ stack[n].collected = 0
             /\ stack[n].pc \in {"transform", "collect"} =>
                   /\ stack[n].dirtyAfterCallback
                   /\ stack[n].applied = 1 /\ stack[n].collected = 0
             /\ (stack[n].pc = "exit" /\ stack[n].dirtyAfterCallback) =>
                   stack[n].applied = 1 /\ stack[n].collected = 1
    /\ (DraftReturned /\ event.frame.dirtyAfterCallback) =>
          event.frame.applied = 1 /\ event.frame.collected = 1

\* C4: when draftViewModel returns after the collector ran, every key that was
\* dirty when the collector started has no nodeMap entry if its node was
\* detached and still has its entry if it was attached; no other entry was
\* removed, and the snapshot returned is the one collected.
C4_DetachedDirtyCollected ==
    (DraftReturned /\ event.frame.collected > 0) =>
        LET before == event.frame.gcNodeMap
            after == heap[event.frame.viewModel].nodeMap
            dirty == Range(event.frame.gcDirtyNodes)
        IN /\ event.result = event.frame.viewModel
           /\ \A k \in dirty \cap DOMAIN before :
                 IF before[k].attached
                 THEN k \in DOMAIN after /\ after[k] = before[k]
                 ELSE k \notin DOMAIN after
           /\ \A k \in Keys \ dirty :
                 k \in DOMAIN before => k \in DOMAIN after /\ after[k] = before[k]
           /\ DOMAIN after \subseteq DOMAIN before

\* a call returns having collected a detached dirty node and kept an attached
\* dirty one
C4_Witness ==
    /\ DraftReturned /\ event.frame.collected > 0
    /\ \E k \in Range(event.frame.gcDirtyNodes) \cap DOMAIN event.frame.gcNodeMap :
          /\ ~event.frame.gcNodeMap[k].attached
          /\ k \notin DOMAIN heap[event.frame.viewModel].nodeMap
    /\ \E k \in Range(event.frame.gcDirtyNodes) \cap DOMAIN event.frame.gcNodeMap :
          /\ event.frame.gcNodeMap[k].attached
          /\ k \in DOMAIN heap[event.frame.viewModel].nodeMap

\* C5: a draftViewModel call made inside the callback (or a transform) of
\* another draftViewModel call does not fork and works on the outer call's
\* snapshot, and when it returns with dirty nodes it returns that snapshot.
C5_NestedDraftSharesSnapshot ==
    /\ \A n \in 1..(Depth - 1) :
          (stack[n].op = "draft" /\ stack[n + 1].op = "draft") =>
             /\ stack[n + 1].hasActiveViewModel
             /\ stack[n + 1].viewModel = stack[n].viewModel
    /\ (DraftReturned /\ stack # <<>> /\ heap[event.frame.viewModel].dirtyNodes # <<>>) =>
          (Top.op = "draft" => event.result = Top.viewModel)

\* C6: in the callback of readViewModel shouldErrorOnReadOnly throws, in the
\* callback of draftViewModel it does not.
C6_ReadOnlyInReadWritableInDraft ==
    (~throwing /\ stack # <<>> /\ Top.pc = "callbackFn") =>
        /\ Top.op = "read" => shouldErrorOnReadOnly(activeReadyOnlyMode)
        /\ Top.op = "draft" => ~shouldErrorOnReadOnly(activeReadyOnlyMode)

\* C7: getActiveViewModel called while none of the three entry points is on
\* the call stack throws.
C7_NoActiveViewModelOutsideScope ==
    (event.type = "getActiveViewModel" /\ event.depth = 0) => event.threw

\* C8: a fork has the root and the entries of the original, empty dirty sets
\* and no selection, and when a draftViewModel call that forked returns, the
\* original has the keys, dirty sets and selection it had at the call.
C8_ForkLeavesOriginalUnchanged ==
    /\ \A id \in VmIds :
          LET fork == cloneViewModel(heap[id]) IN
          /\ fork.root = heap[id].root
          /\ fork.nodeMap = heap[id].nodeMap
          /\ fork.dirtyNodes = <<>> /\ fork.dirtySubTrees = {}
          /\ fork.selection = NoSelection
    /\ (DraftReturned /\ ~event.frame.hasActiveViewModel) =>
          LET original == heap[event.frame.currentViewModel] IN
          /\ DOMAIN original.nodeMap = DOMAIN event.frame.entry.nodeMap
          /\ original.dirtyNodes = event.frame.entry.dirtyNodes
          /\ original.dirtySubTrees = event.frame.entry.dirtySubTrees
          /\ original.selection = event.frame.entry.selection

\* C9: readViewModel forks nothing, no pass runs while it is on the stack, and
\* the snapshot it was given is the same when it returns as when it was called
\* (for callbacks that do not themselves call view.setSelection in a read).
C9_ReadIsPureObservation ==
    /\ \A n \in DOMAIN stack : \A m \in DOMAIN stack :
          (n < m /\ stack[n].op = "read" /\ stack[m].op = "draft") =>
             stack[m].applied = 0 /\ stack[m].collected = 0
    /\ (event.type = "return" /\ event.op = "read"
          /\ ~event.frame.selectionSetInRead) =>
          /\ Len(heap) = event.frame.heapLen
          /\ heap[event.frame.viewModel] = event.frame.entry

\* C10: updateViewModel calls the reconciler with the snapshot active and the
\* editor's current snapshot not yet replaced; notification begins with the
\* snapshot as the editor's current snapshot; no listener is called twice; and
\* when updateViewModel returns, exactly the listeners registered when
\* notification began have been called, each once.
C10_CommitOrder ==
    /\ \A n \in DOMAIN stack :
          stack[n].op = "update" =>
             /\ stack[n].pc = "reconcile" =>
                   /\ n = Depth
                   /\ activeViewModel = stack[n].viewModel
                   /\ editor._viewModel = stack[n].editorViewModel
                   /\ \A l \in Listeners : stack[n].invoked[l] = 0
             /\ \A l \in Listeners : stack[n].invoked[l] <= 1
    /\ (event.type \in {"notify", "return"} /\ event.op = "update"
          /\ event.began) =>
          editor._viewModel = event.frame.viewModel
    /\ (event.type = "return" /\ event.op = "update") =>
          \A l \in Listeners :
             event.frame.invoked[l] =
                IF l \in Range(event.frame.registered) THEN 1 ELSE 0

\* a commit returns having called the one listener registered when its
\* notification began and not the one that listener added
C10_Witness ==
    /\ event.type = "return" /\ event.op = "update"
    /\ Len(event.frame.registered) = 1
    /\ Len(editor._updateListeners) = 2
    /\ event.frame.invoked[1] = 1 /\ event.frame.invoked[2] = 0

\* C11: when an exception leaves a draftViewModel call made on the editor's
\* current snapshot (its callback having committed nothing itself), the
\* editor's current snapshot is the same one, with the same content, as when
\* the call was made; and when an exception leaves updateViewModel out of a
\* change listener (that committed nothing itself), the editor's current
\* snapshot is the one that updateViewModel call committed.
C11_FailureNeitherCommitsNorUndoes ==
    /\ (event.type = "unwind" /\ event.op = "draft"
          /\ ~event.frame.committedInside
          /\ event.frame.currentViewModel = event.frame.editorViewModel) =>
          /\ editor._viewModel = event.frame.editorViewModel
          /\ heap[editor._viewModel] = event.frame.entry
    /\ (event.type = "unwind" /\ event.op = "update"
          /\ event.frame.pc = "listener"
          /\ ~event.frame.committedInside) =>
          editor._viewModel = event.frame.viewModel

\* the identity half of C11, which the failures do keep: an exception leaving
\* any call never replaces the editor's current snapshot, and one leaving
\* updateViewModel out of a listener leaves the committed snapshot current
FailureKeepsCurrentSnapshot ==
    /\ (event.type = "unwind" /\ ~event.frame.committedInside
          /\ event.frame.pc # "listener") =>
          editor._viewModel = event.frame.editorViewModel
    /\ (event.type = "unwind" /\ event.op = "update"
          /\ event.frame.pc = "listener"
          /\ ~event.frame.committedInside) =>
          editor._viewModel = event.frame.viewModel

\* C12: the selection dirtiness that decides acceptance when draftViewModel
\* returns is the one computed from the transaction snapshot's selection and
\* the selection of the currentViewModel argument (one of the two absent, or
\* both present and the transaction's selection dirty): a call with no dirty
\* node returns its transaction snapshot when that value is true and its
\* argument when it is false, whichever snapshot the editor currently holds.
C12_DirtySelectionAgainstArgument ==
    DraftReturned =>
        LET selection == heap[event.frame.viewModel].selection
            argument == heap[event.frame.currentViewModel].selection
            claimed == \/ selection.present # argument.present
                       \/ selection.present /\ argument.present /\ selection.isDirty
        IN (/\ heap[event.frame.viewModel].dirtyNodes = <<>>
            /\ event.frame.viewModel # event.frame.currentViewModel) =>
              /\ claimed => event.result = event.frame.viewModel
              /\ ~claimed => event.result = event.frame.currentViewModel

\* C13: within one transaction (an outermost draftViewModel call and the
\* draftViewModel calls nested in it on its snapshot) no transform is called
\* more than once for the same node; a transform is called only for a node
\* that is in nodeMap, attached and a text node when the pipeline reaches it
\* (when it is about to call the first function on it); and the functions are
\* called on a node in registration order.
C13_TransformOncePerNodePerTransaction ==
    /\ \A f \in Transforms : \A k \in Keys : tx.invoked[f][k] <= 1
    /\ event.type = "invoke" =>
          /\ event.frame.i = 1 => event.transformable
          /\ event.frame.fn = event.frame.i
          /\ \A f \in 1..(event.frame.i - 1) :
                event.frame.called[f][event.frame.node] = 1

\* What does hold of the calls (not C13, which counts over the transaction):
\* one run of applyTextTransforms calls no function twice for the same node,
\* calls only for nodes found in nodeMap, attached and text when reached, in
\* registration order, and once it is over it has called either every function
\* of its array or none for each node.
TransformOncePerNodePerRun ==
    /\ \A n \in DOMAIN stack :
          stack[n].op = "draft" =>
             /\ \A f \in Transforms : \A k \in Keys : stack[n].called[f][k] <= 1
             /\ stack[n].pc \in {"collect", "exit"} =>
                   \A k \in Keys :
                      \/ \A f \in Range(stack[n].textTransforms) :
                            stack[n].called[f][k] = 1
                      \/ \A f \in Transforms : stack[n].called[f][k] = 0
    /\ event.type = "invoke" =>
          /\ event.frame.i = 1 => event.transformable
          /\ event.frame.fn = event.frame.i
          /\ \A f \in 1..(event.frame.i - 1) :
                event.frame.called[f][event.frame.node] = 1

\* one run called both registered functions, in order, on a dirty text node
\* and none on a dirty node that is not a text node
TransformOncePerNodePerRun_Witness ==
    /\ DraftReturned
    /\ Len(event.frame.textTransforms) = 2
    /\ \E k \in Range(event.frame.dirtyNodes) :
          event.frame.called[1][k] = 1 /\ event.frame.called[2][k] = 1
    /\ \E k \in Range(event.frame.dirtyNodes) :
          ~IsTextKey(k) /\ event.frame.called[1][k] = 0

\* C14: the calls made by one run of applyTextTransforms are for node keys
\* that were in dirtyNodes, and of functions that were registered, when that
\* run started; a key marked dirty, or a function registered, while the run
\* is under way gets no call from it.
C14_RunVisitsStartSetsOnly ==
    /\ \A n \in DOMAIN stack :
          stack[n].op = "draft" =>
             \A f \in Transforms : \A k \in Keys :
                stack[n].called[f][k] > 0 =>
                   /\ k \in Range(stack[n].dirtyNodes)
                   /\ f \in Range(stack[n].textTransforms)
    /\ DraftReturned =>
          \A f \in Transforms : \A k \in Keys :
             event.frame.called[f][k] > 0 =>
                /\ k \in Range(event.frame.dirtyNodes)
                /\ f \in Range(event.frame.textTransforms)

\* a call returns whose run called a function, while a text node that became
\* dirty during the run and is still attached, and a function registered
\* during the run, got no call
C14_Witness ==
    /\ DraftReturned
    /\ \E k \in Keys : event.frame.called[1][k] = 1
    /\ Len(event.frame.textTransforms) = 1 /\ Len(editor._textTransforms) = 2
    /\ \A k \in Keys : event.frame.called[2][k] = 0
    /\ \E k \in Range(heap[event.frame.viewModel].dirtyNodes) :
          /\ k \notin Range(event.frame.dirtyNodes)
          /\ transformable(heap[event.frame.viewModel].nodeMap, k)
          /\ event.frame.called[1][k] = 0

\* C15: a draftViewModel call whose snapshot has no dirty node when its
\* mutation callback has returned runs neither applyTextTransforms nor
\* garbageCollectDetachedNodes: it goes straight to its exit, it calls no
\* transform, and its snapshot has at return the nodeMap keys it had at the
\* call.
C15_NoPassesWithoutDirtyNodes ==
    /\ \A n \in DOMAIN stack :
          (stack[n].op = "draft" /\ stack[n].pc # "callbackFn"
             /\ ~stack[n].dirtyAfterCallback) =>
             /\ stack[n].pc = "exit"
             /\ stack[n].applied = 0 /\ stack[n].collected = 0
             /\ \A f \in Transforms : \A k \in Keys : stack[n].called[f][k] = 0
    /\ (DraftReturned /\ ~event.frame.dirtyAfterCallback) =>
          /\ event.frame.applied = 0 /\ event.frame.collected = 0
          /\ \A f \in Transforms : \A k \in Keys : event.frame.called[f][k] = 0
          /\ (~event.frame.hasActiveViewModel
                \/ event.frame.viewModel = event.frame.currentViewModel) =>
                DOMAIN heap[event.frame.viewModel].nodeMap
                   = DOMAIN event.frame.entry.nodeMap

\* a transaction that changed the selection only was accepted, with a
\* transform registered, and ran no pass
C15_Witness ==
    /\ DraftReturned /\ ~event.frame.dirtyAfterCallback
    /\ ~event.frame.hasActiveViewModel
    /\ event.result = event.frame.viewModel
    /\ heap[event.frame.viewModel].selection.isDirty
    /\ Len(editor._textTransforms) > 0
    /\ event.frame.applied = 0 /\ event.frame.collected = 0

\* the draftViewModel and readViewModel calls on the call stack, innermost last
ScopeFrames == SelectSeq(stack, LAMBDA frame : frame.op \in {"draft", "read"})

\* what a push/pop stack of scopes would show: the pair of the innermost scope
ScopeStackTop ==
    IF ScopeFrames = <<>>
    THEN [activeViewModel |-> Null, activeReadyOnlyMode |-> FALSE]
    ELSE [activeViewModel |-> Last(ScopeFrames).viewModel,
          activeReadyOnlyMode |-> Last(ScopeFrames).op = "read"]

\* C16: as long as no exception has left a call, and outside the reconciler
\* call of updateViewModel, activeViewModel and activeReadyOnlyMode are the
\* snapshot and mode of the innermost draftViewModel or readViewModel call on
\* the call stack, null and false when there is none; and the return of a
\* call leaves the pair the enclosing call had when it made the call.
C16_SlotIsScopeStack ==
    ~escaped =>
        /\ (IF stack = <<>> THEN TRUE ELSE Top.pc # "reconcile") =>
              /\ activeViewModel = ScopeStackTop.activeViewModel
              /\ activeReadyOnlyMode = ScopeStackTop.activeReadyOnlyMode
        /\ (event.type = "return" /\ event.op \in {"draft", "read"}) =>
              /\ activeViewModel = event.frame.previousActiveViewModel
              /\ activeReadyOnlyMode = event.frame.previousReadyOnlyMode

\* an inner draftViewModel has just returned into a readViewModel callback
\* that is itself inside a draftViewModel callback on another snapshot
C16_Witness ==
    /\ ~escaped /\ Depth = 2
    /\ event.type = "return" /\ event.op = "draft"
    /\ stack[1].op = "draft" /\ stack[2].op = "read"
    /\ stack[1].viewModel # stack[2].viewModel
    /\ activeViewModel = stack[2].viewModel /\ activeReadyOnlyMode

\* C17: when a draftViewModel call that ran the passes returns, a node that
\* was marked dirty while its pipeline ran (it was not dirty when the run
\* started) and was detached when the pipeline finished has no nodeMap entry,
\* and no dirty node detached since then is left in nodeMap; and a dirty node
\* that was detached when the pipeline started got no transform call from it.
C17_CollectorAfterPipeline ==
    /\ (DraftReturned /\ event.frame.collected > 0) =>
          LET nodeMap == heap[event.frame.viewModel].nodeMap
              during == Range(heap[event.frame.viewModel].dirtyNodes)
                           \ Range(event.frame.dirtyNodes)
          IN /\ \A k \in during :
                   (k \in DOMAIN event.frame.gcNodeMap
                      /\ ~event.frame.gcNodeMap[k].attached) =>
                      k \notin DOMAIN nodeMap
             /\ \A k \in during : k \in DOMAIN nodeMap => nodeMap[k].attached
             /\ \A k \in event.frame.detachedAtStart :
                   \A f \in Transforms : event.frame.called[f][k] = 0
    /\ \A n \in DOMAIN stack :
          stack[n].op = "draft" =>
             \A k \in stack[n].detachedAtStart :
                \A f \in Transforms : stack[n].called[f][k] = 0

\* a call returns whose pipeline skipped a text node the mutation callback had
\* detached and called a transform on another, and whose collector removed a
\* node that became dirty and detached while the pipeline ran
C17_Witness ==
    /\ DraftReturned /\ event.frame.collected > 0
    /\ \E k \in event.frame.detachedAtStart :
          IsTextKey(k) /\ event.frame.called[1][k] = 0
    /\ \E k \in Keys : event.frame.called[1][k] = 1
    /\ \E k \in Range(heap[event.frame.viewModel].dirtyNodes)
                    \ Range(event.frame.dirtyNodes) :
          /\ k \in DOMAIN event.frame.gcNodeMap
          /\ ~event.frame.gcNodeMap[k].attached
          /\ k \notin DOMAIN heap[event.frame.viewModel].nodeMap

\* the keys of dirtyNodes that nodeMap still has, in the order of dirtyNodes
PresentDirtyKeys(vm) == SelectSeq(vm.dirtyNodes, LAMBDA k : k \in DOMAIN vm.nodeMap)

\* C18: for every view model, hasDirtyNodes() is true iff dirtyNodes is not
\* empty; dirtyNodes holds no key twice; getDirtyNodes() is the sequence of
\* the nodeMap entries of the keys of dirtyNodes that nodeMap still has, one
\* per key, in order; and when a draftViewModel call returns after its
\* collector deleted a dirty node, the key is still in dirtyNodes,
\* hasDirtyNodes() is true and getDirtyNodes() has no element for it.
C18_DirtyNodeAccessors ==
    /\ \A id \in VmIds :
          LET vm == heap[id]
              keys == PresentDirtyKeys(vm)
          IN /\ hasDirtyNodes(vm) <=> vm.dirtyNodes # <<>>
             /\ Cardinality(Range(vm.dirtyNodes)) = Len(vm.dirtyNodes)
             /\ getDirtyNodes(vm) = [n \in 1..Len(keys) |-> vm.nodeMap[keys[n]]]
             /\ Len(getDirtyNodes(vm))
                   = Cardinality(Range(vm.dirtyNodes) \cap DOMAIN vm.nodeMap)
    /\ (DraftReturned /\ event.frame.collected > 0) =>
          LET vm == heap[event.frame.viewModel] IN
          \A k \in Range(event.frame.gcDirtyNodes) \cap DOMAIN event.frame.gcNodeMap :
             ~event.frame.gcNodeMap[k].attached =>
                /\ k \in Range(vm.dirtyNodes)
                /\ hasDirtyNodes(vm)
                /\ Len(getDirtyNodes(vm)) < Len(vm.dirtyNodes)

\* a call has returned whose collector deleted one dirty node and kept
\* another: dirtyNodes has both keys, getDirtyNodes() one node
C18_Witness ==
    /\ DraftReturned /\ event.frame.collected > 0
    /\ LET vm == heap[event.frame.viewModel] IN
       /\ Len(vm.dirtyNodes) = 2
       /\ Len(getDirtyNodes(vm)) = 1
       /\ \E k \in Range(vm.dirtyNodes) : k \notin DOMAIN vm.nodeMap

\* a call made beyond MaxDepth is about to return to its forgotten caller:
\* the run is followed no further
ReturnsBeyondBound ==
    IF stack = <<>> THEN FALSE ELSE Top.forgotten /\ Top.pc = "exit" /\ ~throwing

\* C19: every draftViewModel call comes to an end, by a return or by an
\* exception: whenever calls are on the call stack, the call stack is empty
\* again later (or the run has left the bound on its way back).
C19_DraftViewModelTerminates ==
    (stack # <<>>) ~> (stack = <<>> \/ ReturnsBeyondBound)

\* C20: when an outermost draftViewModel call returns whose own callback set a
\* dirty selection (no callback set the selection after that) and whose
\* snapshot has no dirty node, it returns its fork, and the fork's selection
\* is dirty; nested draftViewModel calls made in between make no difference.
C20_SelectionOnlyTransactionAccepted ==
    (DraftReturned /\ event.outermost /\ ~event.frame.hasActiveViewModel
       /\ event.frame.selectionBy = "dirty"
       /\ heap[event.frame.viewModel].dirtyNodes = <<>>) =>
        /\ event.result = event.frame.viewModel
        /\ heap[event.frame.viewModel].selection.present
        /\ heap[event.frame.viewModel].selection.isDirty

\* the last step began the notification of an updateViewModel call: lines
\* 171-172 have run and the first listener (if any) is about to run
UpdateBegan ==
    event.type \in {"notify", "return"} /\ event.op = "update" /\ event.began

\* the last step ended an updateViewModel call, by a return or by an exception
UpdateEnded ==
    event.type \in {"return", "unwind"} /\ event.op = "update"

\* C21: updateViewModel leaves activeViewModel and activeReadyOnlyMode as it
\* found them: during the reconciler call the committed snapshot is active
\* and the flag is the one found; when the notification begins, the pair is
\* the one found and the committed snapshot is the editor's current one, and
\* the listener of a commit made with no draftViewModel or readViewModel call
\* on the call stack has no active snapshot; and whenever the call ends, by a
\* return or by an exception, the pair is the one found.
C21_UpdateLeavesGuardState ==
    /\ \A n \in DOMAIN stack :
          (stack[n].op = "update" /\ stack[n].pc = "reconcile") =>
             /\ activeViewModel = stack[n].viewModel
             /\ activeReadyOnlyMode = stack[n].previousReadyOnlyMode
    /\ UpdateBegan =>
          /\ activeViewModel = event.frame.previousActiveViewModel
          /\ activeReadyOnlyMode = event.frame.previousReadyOnlyMode
          /\ editor._viewModel = event.frame.viewModel
    /\ (UpdateBegan /\ event.type = "notify" /\ ScopeFrames = <<>>) =>
          /\ activeViewModel = Null
          /\ ~activeReadyOnlyMode
    /\ UpdateEnded =>
          /\ activeViewModel = event.frame.previousActiveViewModel
          /\ activeReadyOnlyMode = event.frame.previousReadyOnlyMode

\* the part of C21 that every run keeps: the reconciler is called with the
\* committed snapshot active and the flag untouched, and lines 171-172 have
\* put back the snapshot saved at line 168 and replaced the editor's current
\* snapshot before the first listener runs
UpdateRestoresBeforeListeners ==
    /\ \A n \in DOMAIN stack :
          (stack[n].op = "update" /\ stack[n].pc = "reconcile") =>
             /\ activeViewModel = stack[n].viewModel
             /\ activeReadyOnlyMode = stack[n].previousReadyOnlyMode
    /\ UpdateBegan =>
          /\ activeViewModel = event.frame.previousActiveViewModel
          /\ activeReadyOnlyMode = event.frame.previousReadyOnlyMode
          /\ editor._viewModel = event.frame.viewModel

\* a commit made inside a draftViewModel callback, on a snapshot other than
\* the active fork, has put the fork back and is about to call its listener
UpdateRestoresBeforeListeners_Witness ==
    /\ UpdateBegan /\ event.type = "notify"
    /\ Depth = 2 /\ stack[1].op = "draft"
    /\ Top.viewModel # stack[1].viewModel
    /\ activeViewModel = stack[1].viewModel

\* all of C21 in the runs where no exception has left a call: the pair is the
\* one found when updateViewModel returns, and the listener of a commit made
\* outside any scope has no active snapshot
UpdateLeavesGuardStateOnReturn ==
    ~escaped =>
        /\ (UpdateBegan /\ event.type = "notify" /\ ScopeFrames = <<>>) =>
              /\ activeViewModel = Null
              /\ ~activeReadyOnlyMode
        /\ UpdateEnded =>
              /\ activeViewModel = event.frame.previousActiveViewModel
              /\ activeReadyOnlyMode = event.frame.previousReadyOnlyMode

\* a commit made inside a readViewModel callback has returned, its listener
\* having run, and the read scope is still the active one
UpdateLeavesGuardStateOnReturn_Witness ==
    /\ ~escaped /\ event.type = "return" /\ event.op = "update"
    /\ event.frame.invoked[1] = 1
    /\ Depth = 1 /\ Top.op = "read"
    /\ event.frame.viewModel # Top.viewModel
    /\ activeViewModel = Top.viewModel /\ activeReadyOnlyMode

====
